---- MODULE Spec2Model ----
(***************************************************************************)
(* Replay of recorded market data (package exdgo, replay.go).              *)
(*                                                                         *)
(* The model covers the construction of a ReplayRequest, the stateful     *)
(* rawLineProcessor with its schema table, the eager download loop and     *)
(* the streaming iterator built around the processor.  The raw transport  *)
(* (RawRequest) is a collaborator: it hands over a sequence of raw lines  *)
(* and possibly a transport error.                                         *)
(***************************************************************************)
EXTENDS Integers, Sequences, FiniteSets, TLC

VARIABLES
    param,    \* the ReplayRequestParam the caller holds
    req,      \* what Replay returned: the *ReplayRequest or nil, and the error
    raw,      \* what the raw transport holds for the request
    dl,       \* the last return of DownloadWithContext
    itr,      \* the replayStreamIterator of every stream opened
    crashed   \* a panic unwound the calling goroutine

vars == <<param, req, raw, dl, itr, crashed>>

(***************************************************************************)
(* Bounds of the model.                                                    *)
(***************************************************************************)
\* longest raw line sequence the transport delivers
MaxLen == 3
\* width in bits of the model's int64
IntBits == 8
\* number of Next calls a caller makes on one iterator
MaxNexts == 5
\* number of Close calls a caller makes on one iterator
MaxCloses == 1

(***************************************************************************)
(* Go values.                                                              *)
(***************************************************************************)
Nil == [nil |-> TRUE]

RECURSIVE Pow2(_)
Pow2(n) == IF n = 0 THEN 1 ELSE 2 * Pow2(n - 1)

MaxInt64 == Pow2(IntBits - 1) - 1
MinInt64 == -Pow2(IntBits - 1)

\* values a map[string]interface{} holds after json.Unmarshal, and int64
GoString(s) == [k |-> "string", s |-> s]
GoFloat64(n, d) == [k |-> "float64", num |-> n, den |-> d]
GoBool(b) == [k |-> "bool", b |-> b]
GoObject == [k |-> "map"]
GoInt64(i) == [k |-> "int64", i |-> i]

\* a Go map: the nil map reads as the empty map
NilMap == [isNil |-> TRUE, m |-> <<>>]
MakeMap(f) == [isNil |-> FALSE, m |-> f]

\* a Go slice: nil, or its elements
NilSlice == [isNil |-> TRUE, elems |-> <<>>]
MakeSlice(s) == [isNil |-> FALSE, elems |-> s]

(***************************************************************************)
(* JSON payloads.  A payload is a byte string; the model keeps what        *)
(* encoding/json sees in it: text that is no JSON object, the literal     *)
(* null, or an object of field name -> JSON value.  A JSON string is the  *)
(* sequence of its characters.                                             *)
(***************************************************************************)
JString(s) == [j |-> "string", s |-> s]
JNumber(n, d) == [j |-> "number", num |-> n, den |-> d]
JBool(b) == [j |-> "bool", b |-> b]
JNull == [j |-> "null"]
JObject == [j |-> "object"]

PayloadMalformed == [json |-> "malformed"]
PayloadNull == [json |-> "null"]
PayloadObject(f) == [json |-> "object", obj |-> f]

\* json.Unmarshal(message, &def), def a map[string]string
UnmarshalDef(message) ==
    CASE message.json = "malformed" -> [err |-> TRUE, def |-> NilMap]
      [] message.json = "null" -> [err |-> FALSE, def |-> NilMap]
      [] OTHER ->
           LET obj == message.obj
               bad == \E f \in DOMAIN obj : obj[f].j \notin {"string", "null"}
           IN  [err |-> bad,
                def |-> MakeMap([f \in DOMAIN obj |->
                          IF obj[f].j = "string" THEN obj[f].s ELSE <<>>])]

\* the Go value json.Unmarshal stores in an interface{} for a JSON value
ToInterface(v) ==
    CASE v.j = "string" -> GoString(v.s)
      [] v.j = "number" -> GoFloat64(v.num, v.den)
      [] v.j = "bool" -> GoBool(v.b)
      [] v.j = "object" -> GoObject
      [] OTHER -> Nil

\* json.Unmarshal(message, &msgObj), msgObj a map[string]interface{}
UnmarshalMsg(message) ==
    CASE message.json = "malformed" -> [err |-> TRUE, msgObj |-> MakeMap(<<>>)]
      [] message.json = "null" -> [err |-> FALSE, msgObj |-> NilMap]
      [] OTHER ->
           [err |-> FALSE,
            msgObj |-> MakeMap([f \in DOMAIN message.obj |->
                          ToInterface(message.obj[f])])]

(***************************************************************************)
(* strconv.ParseInt(s, 10, 64)                                             *)
(***************************************************************************)
Digits == <<"0", "1", "2", "3", "4", "5", "6", "7", "8", "9">>
IsDigit(c) == \E i \in DOMAIN Digits : Digits[i] = c
DigitVal(c) == (CHOOSE i \in DOMAIN Digits : Digits[i] = c) - 1

\* the unsigned value of a digit string, -1 on a syntax error; the value
\* saturates just above the int64 range, where ParseInt reports a range error
RECURSIVE ParseUint(_, _)
ParseUint(s, acc) ==
    IF s = <<>> THEN acc
    ELSE IF ~IsDigit(Head(s)) THEN -1
    ELSE LET v == acc * 10 + DigitVal(Head(s))
             w == IF v > MaxInt64 + 1 THEN MaxInt64 + 2 ELSE v
         IN  ParseUint(Tail(s), w)

ParseInt(s) ==
    IF s = <<>> THEN [err |-> "syntax", i |-> 0]
    ELSE LET neg == Head(s) = "-"
             body == IF Head(s) \in {"+", "-"} THEN Tail(s) ELSE s
             un == IF body = <<>> THEN -1 ELSE ParseUint(body, 0)
         IN  IF un = -1 THEN [err |-> "syntax", i |-> 0]
             ELSE IF ~neg /\ un > MaxInt64 THEN [err |-> "range", i |-> MaxInt64]
             ELSE IF neg /\ un > -MinInt64 THEN [err |-> "range", i |-> MinInt64]
             ELSE [err |-> "nil", i |-> IF neg THEN -un ELSE un]

\* faulty variant: rounds toward minus infinity
Float64ToInt64Floor(v) == v.num \div v.den

\* int64(f) for a float64 inside the int64 range: truncation toward zero
Float64ToInt64(v) ==
    IF v.num >= 0 THEN v.num \div v.den ELSE -((-v.num) \div v.den)

(***************************************************************************)
(* Raw lines (StringLine) and typed lines (StructLine).                    *)
(***************************************************************************)
LineTypeMessage == "msg"
LineTypeStart == "start"
LineTypeSend == "send"

\* a nil *string
NilChannel == "<nil>"

StringLine(exchange, type, timestamp, channel, message) ==
    [Exchange |-> exchange, Type |-> type, Timestamp |-> timestamp,
     Channel |-> channel, Message |-> message]

\* the []byte payload of a raw line, carried in an interface{}
RawBytes(message) == [k |-> "bytes", bytes |-> message]

StructLine(exchange, type, timestamp, channel, message, definition) ==
    [Exchange |-> exchange, Type |-> type, Timestamp |-> timestamp,
     Channel |-> channel, Message |-> message, Definition |-> definition]

\* the zero StructLine, the value of ret when processRawLine returns early
ZeroStructLine == StructLine("", "", 0, NilChannel, Nil, NilMap)

(***************************************************************************)
(* rawLineProcessor.  defs is map[exchange]map[channel]map[field]type.     *)
(***************************************************************************)
TagTimestamp == <<"t", "i", "m", "e", "s", "t", "a", "m", "p">>
TagDuration == <<"d", "u", "r", "a", "t", "i", "o", "n">>
TagInt == <<"i", "n", "t">>
TagString == <<"s", "t", "r", "i", "n", "g">>

MapDelete(f, key) == [x \in DOMAIN f \ {key} |-> f[x]]
MapPut(f, key, v) == [x \in DOMAIN f \cup {key} |-> IF x = key THEN v ELSE f[x]]

\* p.defs of newRawLineProcessor
newRawLineProcessor == <<>>

\* what one call of processRawLine leaves behind: the schema table, the
\* returned (ret, ok, err), or a panic that unwinds the caller
Returned(defs, ret, ok, err) ==
    [defs |-> defs, ret |-> ret, ok |-> ok, err |-> err, panics |-> FALSE]
Panicked(defs) ==
    [defs |-> defs, ret |-> ZeroStructLine, ok |-> FALSE, err |-> "nil",
     panics |-> TRUE]

\* faulty variant: the start line does not delete the definitions
DeleteOnStartKeeps(defs, line) == defs

\* faulty variant: the start line clears the whole table
DeleteOnStartAll(defs, line) ==
    IF line.Type = LineTypeStart THEN newRawLineProcessor ELSE defs

\* if line.Type == LineTypeStart { delete(p.defs, line.Exchange) }
DeleteOnStart(defs, line) ==
    IF line.Type = LineTypeStart THEN MapDelete(defs, line.Exchange) ELSE defs

\* faulty variant: the channel is left out
PassThroughNoChannel(line) ==
    StructLine(line.Exchange, line.Type, line.Timestamp, NilChannel,
               RawBytes(line.Message), NilMap)

\* the StructLine of a line that is no message
PassThrough(line) ==
    StructLine(line.Exchange, line.Type, line.Timestamp, line.Channel,
               RawBytes(line.Message), NilMap)

\* the first line for this exchange makes its channel map
EnsureExchange(defs, exchange) ==
    IF exchange \notin DOMAIN defs THEN MapPut(defs, exchange, <<>>) ELSE defs

\* the order in which range visits the keys of a map is not specified
Orders(S) ==
    {o \in [1..Cardinality(S) -> S] : \A i, j \in DOMAIN o : o[i] = o[j] => i = j}

\* faulty variant: the value is not tested against nil before the assertion
ConvertFieldNoNilCheck(typ, msgObj, name) ==
    IF name \in DOMAIN msgObj
    THEN IF typ = TagTimestamp \/ typ = TagDuration
         THEN IF msgObj[name] = Nil \/ msgObj[name].k # "string"
              THEN [status |-> "panic", msgObj |-> msgObj]
              ELSE LET r == ParseInt(msgObj[name].s)
                   IN  [status |-> IF r.err # "nil" THEN "error" ELSE "ok",
                        msgObj |-> [msgObj EXCEPT ![name] = GoInt64(r.i)]]
         ELSE IF typ = TagInt
         THEN IF msgObj[name] = Nil \/ msgObj[name].k # "float64"
              THEN [status |-> "panic", msgObj |-> msgObj]
              ELSE [status |-> "ok",
                    msgObj |-> [msgObj EXCEPT
                                  ![name] = GoInt64(Float64ToInt64(msgObj[name]))]]
         ELSE [status |-> "ok", msgObj |-> msgObj]
    ELSE [status |-> "ok", msgObj |-> msgObj]

\* one turn of the conversion loop on field name: the new msgObj, a returned
\* error, or the panic of a failed type assertion
ConvertField(typ, msgObj, name) ==
    IF name \in DOMAIN msgObj /\ msgObj[name] # Nil
    THEN IF typ = TagTimestamp \/ typ = TagDuration
         THEN IF msgObj[name].k # "string"
              THEN [status |-> "panic", msgObj |-> msgObj]
              ELSE LET r == ParseInt(msgObj[name].s)
                   IN  IF r.err # "nil"
                       THEN [status |-> "error",
                             msgObj |-> [msgObj EXCEPT ![name] = GoInt64(r.i)]]
                       ELSE [status |-> "ok",
                             msgObj |-> [msgObj EXCEPT ![name] = GoInt64(r.i)]]
         ELSE IF typ = TagInt
         THEN IF msgObj[name].k # "float64"
              THEN [status |-> "panic", msgObj |-> msgObj]
              ELSE [status |-> "ok",
                    msgObj |-> [msgObj EXCEPT
                                  ![name] = GoInt64(Float64ToInt64(msgObj[name]))]]
         ELSE [status |-> "ok", msgObj |-> msgObj]
    ELSE [status |-> "ok", msgObj |-> msgObj]

\* faulty variant: the loop ends after the field it visits first
ConvertFieldsFirstOnly(def, msgObj, ord) ==
    IF ord = <<>> THEN [status |-> "ok", msgObj |-> msgObj]
    ELSE ConvertField(def[Head(ord)], msgObj, Head(ord))

\* for name, typ := range def { ... }, the keys visited in the order ord
RECURSIVE ConvertFields(_, _, _)
ConvertFields(def, msgObj, ord) ==
    IF ord = <<>> THEN [status |-> "ok", msgObj |-> msgObj]
    ELSE LET c == ConvertField(def[Head(ord)], msgObj, Head(ord))
         IN  IF c.status # "ok" THEN c
             ELSE ConvertFields(def, c.msgObj, Tail(ord))

\* the message branch once a definition is stored
ConvertMessage(defs, line, def) ==
    LET u == UnmarshalMsg(line.Message)
    IN  IF u.err THEN {Returned(defs, ZeroStructLine, FALSE, "message unmarshal")}
        ELSE {LET c == ConvertFields(def.m, u.msgObj.m, ord)
              IN  CASE c.status = "panic" -> Panicked(defs)
                    [] c.status = "error" ->
                         Returned(defs, ZeroStructLine, FALSE, "type conversion")
                    [] OTHER ->
                         Returned(defs,
                                  StructLine(line.Exchange, line.Type, line.Timestamp,
                                             line.Channel,
                                             [u.msgObj EXCEPT !.m = c.msgObj], def),
                                  TRUE, "nil")
              : ord \in Orders(DOMAIN def.m)}

\* faulty variant: the definition line is stored and emitted as well
UpdateDefEmits(defs, line) ==
    LET u == UnmarshalDef(line.Message)
    IN  IF u.err
        THEN Returned(defs, ZeroStructLine, FALSE, "def update unmarshal")
        ELSE Returned(MapPut(defs, line.Exchange,
                             MapPut(defs[line.Exchange], line.Channel, u.def)),
                      StructLine(line.Exchange, line.Type, line.Timestamp,
                                 line.Channel, UnmarshalMsg(line.Message).msgObj,
                                 u.def),
                      TRUE, "nil")

\* faulty variant: the fresh map is put into the table before it is decoded
UpdateDefStoresFirst(defs, line) ==
    LET u == UnmarshalDef(line.Message)
    IN  IF u.err
        THEN Returned(MapPut(defs, line.Exchange,
                             MapPut(defs[line.Exchange], line.Channel,
                                    MakeMap(<<>>))),
                      ZeroStructLine, FALSE, "def update unmarshal")
        ELSE Returned(MapPut(defs, line.Exchange,
                             MapPut(defs[line.Exchange], line.Channel, u.def)),
                      ZeroStructLine, FALSE, "nil")

\* the message branch when no definition is stored for (exchange, channel)
UpdateDef(defs, line) ==
    LET u == UnmarshalDef(line.Message)
    IN  IF u.err
        THEN Returned(defs, ZeroStructLine, FALSE, "def update unmarshal")
        ELSE Returned(MapPut(defs, line.Exchange,
                             MapPut(defs[line.Exchange], line.Channel, u.def)),
                      ZeroStructLine, FALSE, "nil")

\* processRawLine: the set of ways one call can end
processRawLine(defs, line) ==
    LET defs1 == DeleteOnStart(defs, line)
    IN  IF line.Type # LineTypeMessage
        THEN {Returned(defs1, PassThrough(line), TRUE, "nil")}
        ELSE LET defs2 == EnsureExchange(defs1, line.Exchange)
             IN  IF line.Channel \notin DOMAIN defs2[line.Exchange]
                 THEN {UpdateDef(defs2, line)}
                 ELSE ConvertMessage(defs2, line, defs2[line.Exchange][line.Channel])

(***************************************************************************)
(* ReplayRequest.  A time.Time is the instant it denotes, counted in       *)
(* nanoseconds since the Unix epoch; it reaches beyond the int64 range.    *)
(***************************************************************************)
\* t.UnixNano(): the count as an int64, wrapping outside its range
UnixNano(t) == ((t - MinInt64) % Pow2(IntBits)) + MinInt64

\* copyFilter(param.Filter): the deep copy, or an error
copyFilter(filter) ==
    IF filter.valid THEN [filter |-> filter, err |-> "nil"]
    ELSE [filter |-> Nil, err |-> "copyFilter"]

\* faulty variant: equal instants pass the check
setupReplayRequestAllowsEqual(p) ==
    LET c == copyFilter(p.Filter)
        start == UnixNano(p.Start)
        end == UnixNano(p.End)
    IN  IF c.err # "nil" THEN [ret |-> Nil, err |-> c.err]
        ELSE IF start > end THEN [ret |-> Nil, err |-> "'Start' >= 'End'"]
        ELSE [ret |-> [filter |-> c.filter, start |-> start, end |-> end],
              err |-> "nil"]

setupReplayRequest(p) ==
    LET c == copyFilter(p.Filter)
        start == UnixNano(p.Start)
        end == UnixNano(p.End)
    IN  IF c.err # "nil" THEN [ret |-> Nil, err |-> c.err]
        ELSE IF start >= end THEN [ret |-> Nil, err |-> "'Start' >= 'End'"]
        ELSE [ret |-> [filter |-> c.filter, start |-> start, end |-> end],
              err |-> "nil"]

\* func Replay(clientParam, param): setupClient may fail first
Replay ==
    /\ ~req.called
    /\ \E clientOk \in BOOLEAN :
         LET r == IF clientOk THEN setupReplayRequest(param)
                  ELSE [ret |-> Nil, err |-> "setupClient"]
         IN  req' = [called |-> TRUE, ret |-> r.ret, err |-> r.err]
    /\ UNCHANGED <<param, raw, dl, itr, crashed>>

\* func (c *Client) Replay(param)
ClientReplay ==
    /\ ~req.called
    /\ LET r == setupReplayRequest(param)
       IN  req' = [called |-> TRUE, ret |-> r.ret, err |-> r.err]
    /\ UNCHANGED <<param, raw, dl, itr, crashed>>

(***************************************************************************)
(* The raw transport: raw.lines are the raw lines it delivers in order     *)
(* and raw.fail tells whether it then fails with a transport error.        *)
(***************************************************************************)
\* rawReq.DownloadWithContext(ctx, concurrency)
RawDownload(r) ==
    IF r.fail THEN [slice |-> <<>>, err |-> "transport"]
    ELSE [slice |-> r.lines, err |-> "nil"]

\* i.rawItr.Next() with pos lines pulled so far
RawNext(r, pos) ==
    IF pos < Len(r.lines)
    THEN [line |-> r.lines[pos + 1], ok |-> TRUE, err |-> "nil", pos |-> pos + 1]
    ELSE [line |-> Nil, ok |-> FALSE,
          err |-> IF r.fail THEN "transport" ELSE "nil", pos |-> pos]

(***************************************************************************)
(* DownloadWithContext.  log is the record of every processRawLine call    *)
(* of the loop: the index of the line, what the call returned and the      *)
(* schema table it left.  The log is an observer: no code reads it.       *)
(***************************************************************************)
LogEntry(idx, o) ==
    [idx |-> idx, ret |-> o.ret, ok |-> o.ok, err |-> o.err, panics |-> o.panics,
     defs |-> o.defs]

\* faulty variant: an error returns the lines processed so far with it
RECURSIVE DownloadLoopPartial(_, _, _, _, _)
DownloadLoopPartial(slice, i, defs, result, log) ==
    IF i > Len(slice)
    THEN {[result |-> MakeSlice(result), err |-> "nil", panics |-> FALSE, log |-> log]}
    ELSE UNION {
           LET log1 == Append(log, LogEntry(i, o))
           IN  IF o.panics
               THEN {[result |-> NilSlice, err |-> "nil", panics |-> TRUE, log |-> log1]}
               ELSE IF ~o.ok
               THEN IF o.err # "nil"
                    THEN {[result |-> MakeSlice(result), err |-> o.err,
                           panics |-> FALSE, log |-> log1]}
                    ELSE DownloadLoopPartial(slice, i + 1, o.defs, result, log1)
               ELSE DownloadLoopPartial(slice, i + 1, o.defs, Append(result, o.ret),
                                        log1)
           : o \in processRawLine(defs, slice[i])}

\* faulty variant: an emitted line is put in front of the result
RECURSIVE DownloadLoopPrepends(_, _, _, _, _)
DownloadLoopPrepends(slice, i, defs, result, log) ==
    IF i > Len(slice)
    THEN {[result |-> MakeSlice(result), err |-> "nil", panics |-> FALSE, log |-> log]}
    ELSE UNION {
           LET log1 == Append(log, LogEntry(i, o))
           IN  IF o.panics
               THEN {[result |-> NilSlice, err |-> "nil", panics |-> TRUE, log |-> log1]}
               ELSE IF ~o.ok
               THEN IF o.err # "nil"
                    THEN {[result |-> NilSlice, err |-> o.err, panics |-> FALSE,
                           log |-> log1]}
                    ELSE DownloadLoopPrepends(slice, i + 1, o.defs, result, log1)
               ELSE DownloadLoopPrepends(slice, i + 1, o.defs, <<o.ret>> \o result,
                                         log1)
           : o \in processRawLine(defs, slice[i])}

\* if !ok { if serr != nil { return nil, serr }; continue }; append
RECURSIVE DownloadLoop(_, _, _, _, _)
DownloadLoop(slice, i, defs, result, log) ==
    IF i > Len(slice)
    THEN {[result |-> MakeSlice(result), err |-> "nil", panics |-> FALSE, log |-> log]}
    ELSE UNION {
           LET log1 == Append(log, LogEntry(i, o))
           IN  IF o.panics
               THEN {[result |-> NilSlice, err |-> "nil", panics |-> TRUE, log |-> log1]}
               ELSE IF ~o.ok
               THEN IF o.err # "nil"
                    THEN {[result |-> NilSlice, err |-> o.err, panics |-> FALSE,
                           log |-> log1]}
                    ELSE DownloadLoop(slice, i + 1, o.defs, result, log1)
               ELSE DownloadLoop(slice, i + 1, o.defs, Append(result, o.ret), log1)
           : o \in processRawLine(defs, slice[i])}

\* the ways one call of DownloadWithContext on the transport's data can end;
\* result is the returned slice
DownloadRuns(r) ==
    LET d == RawDownload(r)
    IN  IF d.err # "nil"
        THEN {[result |-> NilSlice, err |-> d.err, panics |-> FALSE, log |-> <<>>]}
        ELSE DownloadLoop(d.slice, 1, newRawLineProcessor, <<>>, <<>>)

DownloadWithContext ==
    /\ ~crashed
    /\ req.ret # Nil
    /\ \E run \in DownloadRuns(raw) :
         /\ dl' = [called |-> TRUE, returned |-> ~run.panics,
                   result |-> run.result, err |-> run.err, log |-> run.log]
         /\ crashed' = run.panics
    /\ UNCHANGED <<param, req, raw, itr>>

\* Download() and DownloadConcurrency(n) are this call with their arguments
Download == DownloadWithContext

(***************************************************************************)
(* replayStreamIterator.  pos is the position of rawItr, defs the schema   *)
(* table of the iterator's processor, rets the returns of the Next calls   *)
(* made so far (each with the positions of rawItr when the call began and  *)
(* when it returned), log the processRawLine calls made so far, closes     *)
(* the number of Close calls with closeErr the error of the last one,      *)
(* rawCloses the number of times rawItr was closed with rawCloseErr the    *)
(* error of the last time.  Where the background fetch is followed (see    *)
(* the cancellation runs below), ctx is the state of the iterator's        *)
(* context, avail the number of raw lines fetched so far, pending tells    *)
(* that a Next call is under way and began where rawItr was when it began; *)
(* elsewhere the fetch is taken to be ahead of the consumer.               *)
(***************************************************************************)
IterIds == {1}

NoIterator ==
    [state |-> "none", err |-> "nil", pos |-> 0, defs |-> <<>>, rets |-> <<>>,
     log |-> <<>>, closes |-> 0, closeErr |-> "nil", rawCloses |-> 0,
     rawCloseErr |-> "nil", ctx |-> "live", avail |-> 0, pending |-> FALSE,
     began |-> 0]

\* faulty variant: the new iterator is given the processor of the first one
newReplayStreamIteratorShared(rawOk) ==
    IF rawOk
    THEN [NoIterator EXCEPT !.state = "open", !.defs = itr[1].defs]
    ELSE [NoIterator EXCEPT !.err = "transport"]

\* newReplayStreamIterator: rawRequest.StreamWithContext may fail
newReplayStreamIterator(rawOk) ==
    IF rawOk
    THEN [NoIterator EXCEPT !.state = "open", !.defs = newRawLineProcessor]
    ELSE [NoIterator EXCEPT !.err = "transport"]

StreamWithContext(i) ==
    /\ ~crashed
    /\ req.ret # Nil
    /\ itr[i].state = "none"
    /\ \E rawOk \in BOOLEAN :
         itr' = [itr EXCEPT ![i] = newReplayStreamIterator(rawOk)]
    /\ UNCHANGED <<param, req, raw, dl, crashed>>

\* Stream() and StreamBufferSize(n) are this call with their arguments
Stream(i) == StreamWithContext(i)

\* faulty variant: the address of the line variable is returned also when the
\* call is not ok
NextReturnKeepsLine(line, ok, err, pos, defs, log) ==
    [line |-> IF line = Nil THEN ZeroStructLine ELSE line, ok |-> ok, err |-> err,
     panics |-> FALSE, pos |-> pos, defs |-> defs, log |-> log]

\* what one call of Next leaves behind: the returned (line, ok, err), the
\* position of rawItr and the processor's table
NextReturn(line, ok, err, pos, defs, log) ==
    [line |-> line, ok |-> ok, err |-> err, panics |-> FALSE,
     pos |-> pos, defs |-> defs, log |-> log]

\* faulty variant: a line that is not emitted ends the call as the end of
\* the stream does, instead of continuing with the next raw line
RECURSIVE NextLoopStops(_, _, _, _)
NextLoopStops(r, pos, defs, log) ==
    LET n == RawNext(r, pos)
    IN  IF ~n.ok
        THEN {NextReturn(Nil, FALSE, n.err, n.pos, defs, log)}
        ELSE UNION {
               LET log1 == Append(log, LogEntry(n.pos, o))
               IN  IF o.panics
                   THEN {[NextReturn(Nil, FALSE, "nil", n.pos, o.defs, log1)
                            EXCEPT !.panics = TRUE]}
                   ELSE IF ~o.ok
                   THEN {NextReturn(Nil, FALSE, o.err, n.pos, o.defs, log1)}
                   ELSE {NextReturn(o.ret, TRUE, "nil", n.pos, o.defs, log1)}
               : o \in processRawLine(defs, n.line)}

\* faulty variant: the end of the raw sequence is reported as an error
RECURSIVE NextLoopEOF(_, _, _, _)
NextLoopEOF(r, pos, defs, log) ==
    LET n == RawNext(r, pos)
    IN  IF ~n.ok
        THEN {NextReturn(Nil, FALSE, IF n.err # "nil" THEN n.err ELSE "EOF",
                         n.pos, defs, log)}
        ELSE UNION {
               LET log1 == Append(log, LogEntry(n.pos, o))
               IN  IF o.panics
                   THEN {[NextReturn(Nil, FALSE, "nil", n.pos, o.defs, log1)
                            EXCEPT !.panics = TRUE]}
                   ELSE IF ~o.ok
                   THEN IF o.err # "nil"
                        THEN {NextReturn(Nil, FALSE, o.err, n.pos, o.defs, log1)}
                        ELSE NextLoopEOF(r, n.pos, o.defs, log1)
                   ELSE {NextReturn(o.ret, TRUE, "nil", n.pos, o.defs, log1)}
               : o \in processRawLine(defs, n.line)}

\* the for loop of Next: the ways one call can end
RECURSIVE NextLoop(_, _, _, _)
NextLoop(r, pos, defs, log) ==
    LET n == RawNext(r, pos)
    IN  IF ~n.ok
        THEN {NextReturn(Nil, FALSE, n.err, n.pos, defs, log)}
        ELSE UNION {
               LET log1 == Append(log, LogEntry(n.pos, o))
               IN  IF o.panics
                   THEN {[NextReturn(Nil, FALSE, "nil", n.pos, o.defs, log1)
                            EXCEPT !.panics = TRUE]}
                   ELSE IF ~o.ok
                   THEN IF o.err # "nil"
                        THEN {NextReturn(Nil, FALSE, o.err, n.pos, o.defs, log1)}
                        ELSE NextLoop(r, n.pos, o.defs, log1)
                   ELSE {NextReturn(o.ret, TRUE, "nil", n.pos, o.defs, log1)}
               : o \in processRawLine(defs, n.line)}

IterNext(i) ==
    /\ ~crashed
    /\ itr[i].state = "open"
    /\ itr[i].closes = 0
    /\ Len(itr[i].rets) < MaxNexts
    /\ \E run \in NextLoop(raw, itr[i].pos, itr[i].defs, itr[i].log) :
         /\ itr' = [itr EXCEPT ![i] =
                      [@ EXCEPT !.pos = run.pos, !.defs = run.defs, !.log = run.log,
                                !.rets = IF run.panics THEN @
                                         ELSE Append(@, [at |-> itr[i].pos,
                                                         to |-> run.pos,
                                                         line |-> run.line,
                                                         ok |-> run.ok,
                                                         err |-> run.err])]]
         /\ crashed' = run.panics
    /\ UNCHANGED <<param, req, raw, dl>>

\* faulty variant: the error of rawItr.Close() is dropped
CloseReturnSwallows(rawErr) == "nil"

\* serr := i.rawItr.Close(); if serr != nil { return serr }; return nil
CloseReturn(rawErr) == IF rawErr # "nil" THEN rawErr ELSE "nil"

\* Close: one call of rawItr.Close(), which may fail, and what is returned
IterClose(i) ==
    /\ ~crashed
    /\ itr[i].state = "open"
    /\ itr[i].closes < MaxCloses
    /\ \E rawErr \in {"nil", "close"} :
         itr' = [itr EXCEPT ![i] =
                   [@ EXCEPT !.rawCloses = @ + 1, !.closes = @ + 1,
                             !.rawCloseErr = rawErr,
                             !.closeErr = CloseReturn(rawErr)]]
    /\ UNCHANGED <<param, req, raw, dl, crashed>>

(***************************************************************************)
(* The data of a run.                                                      *)
(***************************************************************************)
Exchanges == {"e1", "e2"}
Channels == {"c1", "c2"}

\* {"ts":"timestamp"}, {"ts":"12"}, {"ts":42.7}
PayloadDef == PayloadObject([ts |-> JString(TagTimestamp)])
PayloadMsg == PayloadObject([ts |-> JString(<<"1", "2">>)])
PayloadNum == PayloadObject([ts |-> JNumber(427, 10)])

\* raw lines before the transport stamps them: on e1 every kind of line
\* on two channels, on e2 a start line and one channel
StartLine(e) == StringLine(e, LineTypeStart, 0, NilChannel, PayloadMalformed)
SendLine(e, c, m) == StringLine(e, LineTypeSend, 0, c, m)
Message(e, c, m) == StringLine(e, LineTypeMessage, 0, c, m)

LineKinds ==
    {StartLine("e1"), SendLine("e1", "c1", PayloadMsg),
     Message("e1", "c1", PayloadDef), Message("e1", "c1", PayloadMsg),
     Message("e1", "c1", PayloadNum),
     Message("e1", "c2", PayloadDef), Message("e1", "c2", PayloadMsg),
     StartLine("e2"),
     Message("e2", "c1", PayloadDef), Message("e2", "c1", PayloadMsg)}

\* the i-th line of a response carries timestamp i
Stamp(s) == [i \in DOMAIN s |-> [s[i] EXCEPT !.Timestamp = i]]

RawData ==
    {[lines |-> Stamp(s), fail |-> f] :
       s \in UNION {[1..n -> LineKinds] : n \in 0..MaxLen}, f \in BOOLEAN}

Filter(valid) == [valid |-> valid, channels |-> [e \in Exchanges |-> Channels]]

DefaultParam == [Filter |-> Filter(TRUE), Start |-> 0, End |-> 1]

NotCalled == [called |-> FALSE, ret |-> Nil, err |-> "nil"]
NotDownloaded ==
    [called |-> FALSE, returned |-> FALSE, result |-> NilSlice, err |-> "nil",
     log |-> <<>>]

Init ==
    /\ param = DefaultParam
    /\ req = NotCalled
    /\ raw \in RawData
    /\ dl = NotDownloaded
    /\ itr = [i \in IterIds |-> NoIterator]
    /\ crashed = FALSE

Next ==
    \/ Replay
    \/ ClientReplay
    \/ DownloadWithContext
    \/ \E i \in IterIds : StreamWithContext(i)
    \/ \E i \in IterIds : IterNext(i)
    \/ \E i \in IterIds : IterClose(i)

Spec == Init /\ [][Next]_vars

(***************************************************************************)
(* Conversion runs: one definition line and one message line of the same   *)
(* channel, with every shape of definition and of message over three       *)
(* fields, pushed through a download.                                      *)
(***************************************************************************)
Fields == {"ts", "n", "s"}
Tags == {TagTimestamp, TagDuration, TagInt, TagString}

PartialFunctions(D, R) == UNION {[S -> R] : S \in SUBSET D}

\* null, "12", "-3", "x", "999", 42.7, -1.5, true
JsonValues ==
    {JNull, JString(<<"1", "2">>), JString(<<"-", "3">>), JString(<<"x">>),
     JString(<<"9", "9", "9">>), JNumber(427, 10), JNumber(-15, 10), JBool(TRUE)}

DefPayloads ==
    {PayloadObject([f \in DOMAIN d |-> JString(d[f])]) :
       d \in PartialFunctions(Fields, Tags)} \cup {PayloadNull}

MsgPayloads ==
    {PayloadObject(o) : o \in PartialFunctions(Fields, JsonValues)}
    \cup {PayloadNull, PayloadMalformed}

InitCoerce ==
    /\ param = DefaultParam
    /\ req = NotCalled
    /\ raw \in {[lines |-> Stamp(<<Message("e1", "c1", d), Message("e1", "c1", m)>>),
                 fail |-> FALSE] : d \in DefPayloads, m \in MsgPayloads}
    /\ dl = NotDownloaded
    /\ itr = [i \in IterIds |-> NoIterator]
    /\ crashed = FALSE

NextCoerce ==
    \/ ClientReplay
    \/ DownloadWithContext

SpecCoerce == InitCoerce /\ [][NextCoerce]_vars

(***************************************************************************)
(* Construction runs: every pair of instants around the ends of the int64  *)
(* range, with a filter that can or cannot be copied.                      *)
(***************************************************************************)
Instants == {MinInt64 - 1, MinInt64, -1, 0, 1, MaxInt64, MaxInt64 + 1}

InitReq ==
    /\ param \in {[Filter |-> Filter(v), Start |-> a, End |-> b] :
                    v \in BOOLEAN, a \in Instants, b \in Instants}
    /\ req = NotCalled
    /\ raw = [lines |-> <<>>, fail |-> FALSE]
    /\ dl = NotDownloaded
    /\ itr = [i \in IterIds |-> NoIterator]
    /\ crashed = FALSE

NextReq ==
    \/ Replay
    \/ ClientReplay

SpecReq == InitReq /\ [][NextReq]_vars

(***************************************************************************)
(* Paired runs: two stream iterators and the downloads of one request,    *)
(* interleaved in every way over the same raw lines, with definitions of   *)
(* two fields so that the order of the conversion loop matters.            *)
(***************************************************************************)
PairIds == {1, 2}

\* {"ts":"timestamp","n":"int"}, {"ts":"12","n":42.7}, {"ts":"x","n":"x"}
PairDef == PayloadObject([ts |-> JString(TagTimestamp), n |-> JString(TagInt)])
PairMsg == PayloadObject([ts |-> JString(<<"1", "2">>), n |-> JNumber(427, 10)])
PairBad == PayloadObject([ts |-> JString(<<"x">>), n |-> JString(<<"x">>)])

PairLineKinds ==
    {StartLine("e1"), Message("e1", "c1", PairDef), Message("e1", "c1", PairMsg),
     Message("e1", "c1", PairBad), Message("e1", "c2", PairDef)}

InitPair ==
    /\ param = DefaultParam
    /\ req = NotCalled
    /\ raw \in {[lines |-> Stamp(s), fail |-> FALSE] :
                  s \in UNION {[1..n -> PairLineKinds] : n \in 0..MaxLen}}
    /\ dl = NotDownloaded
    /\ itr = [i \in PairIds |-> NoIterator]
    /\ crashed = FALSE

NextPair ==
    \/ ClientReplay
    \/ DownloadWithContext
    \/ \E i \in PairIds : StreamWithContext(i)
    \/ \E i \in PairIds : IterNext(i)

SpecPair == InitPair /\ [][NextPair]_vars

(***************************************************************************)
(* Cancellation runs: the background fetch of one iterator is followed    *)
(* line by line, the caller may cancel the context while lines are still   *)
(* to be fetched, and Next is taken one turn of its for loop at a time, so *)
(* that a call can wait for a line.                                        *)
(***************************************************************************)
\* i.rawItr.Next() of iterator record it: the buffered line; at the end of
\* a completed fetch what RawNext gives; after a cancellation the transport
\* error, or a line still buffered; no outcome (the call waits) when the
\* buffer is empty and the fetch goes on
RawNextCtx(r, it) ==
    IF it.ctx = "cancelled"
    THEN {[line |-> Nil, ok |-> FALSE, err |-> "transport", pos |-> it.pos]}
         \cup (IF it.pos < it.avail THEN {RawNext(r, it.pos)} ELSE {})
    ELSE IF it.pos < it.avail \/ it.avail = Len(r.lines) THEN {RawNext(r, it.pos)}
    ELSE {}

\* return of the Next call under way
EndCall(it, line, ok, err) ==
    [it EXCEPT !.pending = FALSE,
               !.rets = Append(@, [at |-> it.began, to |-> it.pos, line |-> line,
                                   ok |-> ok, err |-> err, ctx |-> it.ctx])]

\* faulty variant: an error of rawItr.Next() is not returned, the loop goes
\* on to pull again
LoopTurnRetries(it, n) ==
    IF ~n.ok
    THEN IF n.err # "nil" THEN {[it |-> it, panics |-> FALSE]}
         ELSE {[it |-> EndCall(it, Nil, FALSE, n.err), panics |-> FALSE]}
    ELSE {LET it1 == [it EXCEPT !.pos = n.pos, !.defs = o.defs,
                                !.log = Append(@, LogEntry(n.pos, o))]
          IN  IF o.panics THEN [it |-> it1, panics |-> TRUE]
              ELSE IF ~o.ok
              THEN IF o.err # "nil"
                   THEN [it |-> EndCall(it1, Nil, FALSE, o.err), panics |-> FALSE]
                   ELSE [it |-> it1, panics |-> FALSE]
              ELSE [it |-> EndCall(it1, o.ret, TRUE, "nil"), panics |-> FALSE]
          : o \in processRawLine(it.defs, n.line)}

\* one turn of the for loop of Next, given what rawItr.Next() returned
LoopTurn(it, n) ==
    IF ~n.ok
    THEN {[it |-> EndCall(it, Nil, FALSE, n.err), panics |-> FALSE]}
    ELSE {LET it1 == [it EXCEPT !.pos = n.pos, !.defs = o.defs,
                                !.log = Append(@, LogEntry(n.pos, o))]
          IN  IF o.panics THEN [it |-> it1, panics |-> TRUE]
              ELSE IF ~o.ok
              THEN IF o.err # "nil"
                   THEN [it |-> EndCall(it1, Nil, FALSE, o.err), panics |-> FALSE]
                   ELSE [it |-> it1, panics |-> FALSE]
              ELSE [it |-> EndCall(it1, o.ret, TRUE, "nil"), panics |-> FALSE]
          : o \in processRawLine(it.defs, n.line)}

\* the caller calls Next
IterNextBegin(i) ==
    /\ ~crashed
    /\ itr[i].state = "open"
    /\ itr[i].closes = 0
    /\ ~itr[i].pending
    /\ Len(itr[i].rets) < MaxNexts
    /\ itr' = [itr EXCEPT ![i] = [@ EXCEPT !.pending = TRUE, !.began = itr[i].pos]]
    /\ UNCHANGED <<param, req, raw, dl, crashed>>

\* the call under way makes one turn of its loop
IterNextTurn(i) ==
    /\ ~crashed
    /\ itr[i].pending
    /\ \E n \in RawNextCtx(raw, itr[i]) : \E t \in LoopTurn(itr[i], n) :
         /\ itr' = [itr EXCEPT ![i] = t.it]
         /\ crashed' = t.panics
    /\ UNCHANGED <<param, req, raw, dl>>

\* the background download of the raw iterator buffers one more line
BackgroundFetch(i) ==
    /\ itr[i].state = "open"
    /\ itr[i].ctx = "live"
    /\ itr[i].avail < Len(raw.lines)
    /\ itr' = [itr EXCEPT ![i] = [@ EXCEPT !.avail = @ + 1]]
    /\ UNCHANGED <<param, req, raw, dl, crashed>>

\* the caller cancels the context given to StreamWithContext while lines
\* are still to be fetched; the background download stops
CancelContext(i) ==
    /\ itr[i].state = "open"
    /\ itr[i].ctx = "live"
    /\ itr[i].avail < Len(raw.lines)
    /\ itr' = [itr EXCEPT ![i] = [@ EXCEPT !.ctx = "cancelled"]]
    /\ UNCHANGED <<param, req, raw, dl, crashed>>

\* lines of one channel: a definition, a message, a start line
CancelLineKinds ==
    {StartLine("e1"), Message("e1", "c1", PayloadDef), Message("e1", "c1", PayloadMsg)}

InitCancel ==
    /\ param = DefaultParam
    /\ req = NotCalled
    /\ raw \in {[lines |-> Stamp(s), fail |-> f] :
                  s \in UNION {[1..n -> CancelLineKinds] : n \in 0..MaxLen},
                  f \in BOOLEAN}
    /\ dl = NotDownloaded
    /\ itr = [i \in IterIds |-> NoIterator]
    /\ crashed = FALSE

NextCancel ==
    \/ ClientReplay
    \/ \E i \in IterIds : StreamWithContext(i)
    \/ \E i \in IterIds : BackgroundFetch(i)
    \/ \E i \in IterIds : CancelContext(i)
    \/ \E i \in IterIds : IterNextBegin(i)
    \/ \E i \in IterIds : IterNextTurn(i)

SpecCancel == InitCancel /\ [][NextCancel]_vars

\* the goroutine that called Next keeps running
FairSpecCancel == SpecCancel /\ \A i \in IterIds : WF_vars(IterNextTurn(i))

(***************************************************************************)
(* Properties.  They read the raw lines, the returns and the logs; what    *)
(* a raw line is to the session is defined on the raw sequence alone.      *)
(***************************************************************************)
Range(f) == {f[x] : x \in DOMAIN f}

\* the logs of all processors of the run
Logs == {dl.log} \cup {itr[i].log : i \in DOMAIN itr}

IsMessageOf(l, e, c) ==
    l.Type = LineTypeMessage /\ l.Exchange = e /\ l.Channel = c
IsStartOf(l, e) == l.Type = LineTypeStart /\ l.Exchange = e

\* line k is the first message line of its (exchange, channel) after some
\* start line of its exchange
FirstAfterStart(lines, k) ==
    /\ lines[k].Type = LineTypeMessage
    /\ \E j \in 1..(k - 1) :
         /\ IsStartOf(lines[j], lines[k].Exchange)
         /\ \A m \in (j + 1)..(k - 1) :
              ~IsMessageOf(lines[m], lines[k].Exchange, lines[k].Channel)

\* line j is a schema-definition line: the first message line of its
\* (exchange, channel) since the session began or since the last start line
\* of its exchange
SchemaDefLine(lines, j) ==
    /\ lines[j].Type = LineTypeMessage
    /\ \A k \in 1..(j - 1) :
         IsMessageOf(lines[k], lines[j].Exchange, lines[j].Channel)
         => \E m \in (k + 1)..(j - 1) : IsStartOf(lines[m], lines[j].Exchange)

\* the call behind a log entry took the line as a schema definition: nothing
\* emitted, and either the decoded mapping stored or the decode error returned
ConsumedAsDef(entry, line) ==
    LET u == UnmarshalDef(line.Message)
    IN  /\ ~entry.ok
        /\ ~entry.panics
        /\ entry.ret = ZeroStructLine
        /\ IF u.err THEN entry.err = "def update unmarshal"
           ELSE /\ entry.err = "nil"
                /\ line.Exchange \in DOMAIN entry.defs
                /\ line.Channel \in DOMAIN entry.defs[line.Exchange]
                /\ entry.defs[line.Exchange][line.Channel] = u.def

\* C1: in every processor, the first message line of (E, c) after a start
\* line of E is consumed as a schema definition and not emitted, whatever was
\* stored for (E, c) before the start line.
SchemaResetLaw ==
    \A log \in Logs : \A q \in DOMAIN log :
        FirstAfterStart(raw.lines, log[q].idx)
        => ConsumedAsDef(log[q], raw.lines[log[q].idx])

\* a definition was stored for (E, c), a start line of E came, and the next
\* message line of (E, c), carrying the same payload, was stored again
SchemaResetSeen ==
    \E log \in Logs : \E q1, q2, q3 \in DOMAIN log :
        LET l1 == raw.lines[log[q1].idx]
            l2 == raw.lines[log[q2].idx]
            l3 == raw.lines[log[q3].idx]
        IN  /\ q1 < q2 /\ q2 < q3
            /\ l1.Type = LineTypeMessage
            /\ ~log[q1].ok /\ log[q1].err = "nil"
            /\ IsStartOf(l2, l1.Exchange)
            /\ IsMessageOf(l3, l1.Exchange, l1.Channel)
            /\ l3.Message = l1.Message
            /\ FirstAfterStart(raw.lines, log[q3].idx)
            /\ ~log[q3].ok /\ log[q3].err = "nil"

\* the typed lines handed to callers: the slice of the download and the lines
\* of the Next returns
Outputs ==
    Range(dl.result.elems)
    \cup UNION {{itr[i].rets[q].line : q \in {x \in DOMAIN itr[i].rets : itr[i].rets[x].ok}}
                : i \in IterIds}

\* C2: no typed line handed to a caller comes from a schema-definition line
\* (the typed line of raw line j carries its timestamp j), and a Next return
\* that is not ok carries no line, also when an error follows.
SchemaDefNeverOutput ==
    /\ \A o \in Outputs : \A j \in DOMAIN raw.lines :
         SchemaDefLine(raw.lines, j) => o.Timestamp # raw.lines[j].Timestamp
    /\ \A i \in IterIds : \A q \in DOMAIN itr[i].rets :
         ~itr[i].rets[q].ok => itr[i].rets[q].line = Nil

\* an iterator yielded a line that follows a schema-definition line and a
\* later Next call returned an error
OutputThenError ==
    \E i \in IterIds : \E a, b \in DOMAIN itr[i].rets :
        /\ a < b
        /\ itr[i].rets[a].ok
        /\ itr[i].rets[b].err # "nil"
        /\ \E j \in 1..(itr[i].rets[a].line.Timestamp - 1) :
             SchemaDefLine(raw.lines, j)

IsOk(r) == r.ok

\* the lines an iterator yielded, in order
Yielded(i) ==
    LET oks == SelectSeq(itr[i].rets, IsOk)
    IN  [q \in DOMAIN oks |-> oks[q].line]

\* the last Next call reported the graceful end
Drained(i) ==
    /\ itr[i].rets # <<>>
    /\ LET last == itr[i].rets[Len(itr[i].rets)]
       IN  ~last.ok /\ last.err = "nil"

ErrorFree(i) == \A q \in DOMAIN itr[i].rets : itr[i].rets[q].err = "nil"

\* C3: an iterator drained without error and a download of the same raw
\* sequence give the same typed lines in the same order.
StreamEqualsDownload ==
    \A i \in IterIds :
        (Drained(i) /\ ErrorFree(i) /\ dl.called)
        => /\ dl.returned
           /\ dl.err = "nil"
           /\ ~dl.result.isNil
           /\ dl.result.elems = Yielded(i)

\* both ran on a sequence with a dropped schema-definition line and at least
\* two typed lines
StreamAndDownloadDone ==
    \E i \in IterIds :
        /\ Drained(i) /\ ErrorFree(i) /\ dl.called
        /\ Len(Yielded(i)) >= 2
        /\ Len(Yielded(i)) < Len(raw.lines)

IsEmitted(entry) == entry.ok

\* the typed lines a log says were emitted, in order
Emitted(log) ==
    LET oks == SelectSeq(log, IsEmitted)
    IN  [q \in DOMAIN oks |-> oks[q].ret]

GracefulEnd(r) == r.line = Nil /\ ~r.ok /\ r.err = "nil"

\* C5: every Next call that begins with the raw sequence exhausted, the
\* transport not failing, returns no line, ok false and no error.
EndIsSticky ==
    \A i \in IterIds : \A q \in DOMAIN itr[i].rets :
        (itr[i].rets[q].at = Len(raw.lines) /\ ~raw.fail)
        => GracefulEnd(itr[i].rets[q])

\* three Next calls were made after a non-empty raw sequence was exhausted
EndSeenAgain ==
    \E i \in IterIds : \E q1, q2, q3 \in DOMAIN itr[i].rets :
        /\ q1 < q2 /\ q2 < q3
        /\ Len(raw.lines) > 0 /\ ~raw.fail
        /\ itr[i].rets[q1].at = Len(raw.lines)
        /\ GracefulEnd(itr[i].rets[q3])

\* C6: a construction whose start is not before its end, both taken as
\* int64 nanosecond counts, fails with the validation error (unless the
\* client or the filter failed first) and returns no request; a request that
\* exists has start < end.
StartBeforeEnd ==
    req.called
    => /\ UnixNano(param.Start) >= UnixNano(param.End)
          => /\ req.ret = Nil
             /\ req.err # "nil"
             /\ (param.Filter.valid /\ req.err # "setupClient")
                => req.err = "'Start' >= 'End'"
       /\ req.ret # Nil
          => /\ req.err = "nil"
             /\ req.ret.start < req.ret.end
             /\ req.ret.start = UnixNano(param.Start)
             /\ req.ret.end = UnixNano(param.End)

\* a construction with equal instants was refused with the validation error
EqualInstantsRefused ==
    /\ req.called
    /\ param.Start = param.End
    /\ req.ret = Nil
    /\ req.err = "'Start' >= 'End'"

\* the decimal numeral of an integer
RECURSIVE Numeral(_)
Numeral(n) ==
    IF n < 0 THEN <<"-">> \o Numeral(-n)
    ELSE IF n < 10 THEN <<Digits[n + 1]>>
    ELSE Numeral(n \div 10) \o <<Digits[(n % 10) + 1]>>

\* the string s denotes the integer n in decimal
Denotes(s, n) == s = Numeral(n) \/ (n >= 0 /\ s = <<"+">> \o Numeral(n))

\* z is num/den cut to its integral part
IsTruncation(z, num, den) ==
    IF num >= 0 THEN z * den <= num /\ num < (z + 1) * den
    ELSE (z - 1) * den < num /\ num <= z * den

IsNumericTag(typ) == typ \in {TagTimestamp, TagDuration}

\* the table before call q of a log holds a definition for the pair of the
\* message line the call is given
StoredBefore(log, q) ==
    LET line == raw.lines[log[q].idx]
    IN  /\ q > 1
        /\ line.Type = LineTypeMessage
        /\ line.Exchange \in DOMAIN log[q - 1].defs
        /\ line.Channel \in DOMAIN log[q - 1].defs[line.Exchange]

DefBefore(log, q) ==
    LET line == raw.lines[log[q].idx]
    IN  log[q - 1].defs[line.Exchange][line.Channel].m

\* the fields of a payload that decodes to a mapping
ObjectOf(message) == IF message.json = "object" THEN message.obj ELSE <<>>

\* out is the decoded object obj coerced by def
Coerced(def, obj, out) ==
    /\ DOMAIN out = DOMAIN obj
    /\ \A f \in DOMAIN obj :
         IF f \in DOMAIN def /\ obj[f] # JNull /\ IsNumericTag(def[f])
         THEN /\ obj[f].j = "string"
              /\ out[f].k = "int64"
              /\ out[f].i \in MinInt64..MaxInt64
              /\ Denotes(obj[f].s, out[f].i)
         ELSE IF f \in DOMAIN def /\ obj[f] # JNull /\ def[f] = TagInt
         THEN /\ obj[f].j = "number"
              /\ out[f].k = "int64"
              /\ IsTruncation(out[f].i, obj[f].num, obj[f].den)
         ELSE out[f] = ToInterface(obj[f])

\* C7: the mapping emitted for a message line with a stored definition is the
\* decoded mapping with the non-null timestamp and duration fields replaced
\* by the integer their string denotes, the non-null int fields by their
\* truncated value, and every other field unchanged.
TypeCoercion ==
    \A log \in Logs : \A q \in DOMAIN log :
        (StoredBefore(log, q) /\ log[q].ok)
        => /\ raw.lines[log[q].idx].Message.json # "malformed"
           /\ Coerced(DefBefore(log, q), ObjectOf(raw.lines[log[q].idx].Message),
                      log[q].ret.Message.m)

\* {ts:timestamp, n:int, s:string} and {ts:"12", n:42.7, s:"x"} gave
\* {ts:12, n:42, s:"x"}
CoercionExample ==
    /\ dl.called /\ dl.returned /\ Len(dl.log) = 2
    /\ raw.lines[1].Message =
         PayloadObject([ts |-> JString(TagTimestamp), n |-> JString(TagInt),
                        s |-> JString(TagString)])
    /\ raw.lines[2].Message =
         PayloadObject([ts |-> JString(<<"1", "2">>), n |-> JNumber(427, 10),
                        s |-> JString(<<"x">>)])
    /\ dl.result.elems[1].Message =
         MakeMap([ts |-> GoInt64(12), n |-> GoInt64(42), s |-> GoString(<<"x">>)])

\* C8: a field tagged timestamp, duration or int that is null or missing in
\* the message raises nothing: when every tagged field is null or missing the
\* line is emitted, and an emitted line keeps a null field null and does not
\* gain a missing field.
NullOrAbsentPassThrough ==
    \A log \in Logs : \A q \in DOMAIN log :
        (StoredBefore(log, q) /\ raw.lines[log[q].idx].Message.json # "malformed")
        => LET def == DefBefore(log, q)
               obj == ObjectOf(raw.lines[log[q].idx].Message)
               tagged == {f \in DOMAIN def : IsNumericTag(def[f]) \/ def[f] = TagInt}
           IN  /\ (\A f \in tagged : f \notin DOMAIN obj \/ obj[f] = JNull)
                  => (log[q].ok /\ log[q].err = "nil" /\ ~log[q].panics)
               /\ log[q].ok
                  => \A f \in tagged :
                       /\ (f \in DOMAIN obj /\ obj[f] = JNull)
                          => log[q].ret.Message.m[f] = Nil
                       /\ f \notin DOMAIN obj
                          => f \notin DOMAIN log[q].ret.Message.m

\* a line with a null timestamp field and a missing int field was emitted
NullAndAbsentSeen ==
    /\ dl.called /\ dl.returned /\ Len(dl.log) = 2
    /\ raw.lines[1].Message =
         PayloadObject([ts |-> JString(TagTimestamp), n |-> JString(TagInt)])
    /\ raw.lines[2].Message = PayloadObject([ts |-> JNull, s |-> JString(<<"x">>)])
    /\ dl.log[2].ok
    /\ dl.result.elems[1].Message = MakeMap([ts |-> Nil, s |-> GoString(<<"x">>)])

\* a JSON value that is a decimal 64-bit integer string
IsDecimalInt64(v) ==
    v.j = "string" /\ \E n \in MinInt64..MaxInt64 : Denotes(v.s, n)

\* C9: a message line with a stored definition and a non-null timestamp or
\* duration field that is no decimal 64-bit integer string makes
\* processRawLine return a DecodeError, not ok and with no typed line; the
\* call does not panic.
UncoercibleIsDecodeError ==
    \A log \in Logs : \A q \in DOMAIN log :
        (/\ StoredBefore(log, q)
         /\ raw.lines[log[q].idx].Message.json = "object"
         /\ LET def == DefBefore(log, q)
                obj == raw.lines[log[q].idx].Message.obj
            IN  \E f \in DOMAIN def \cap DOMAIN obj :
                    IsNumericTag(def[f]) /\ obj[f] # JNull /\ ~IsDecimalInt64(obj[f]))
        => /\ ~log[q].panics
           /\ ~log[q].ok
           /\ log[q].err # "nil"
           /\ log[q].ret = ZeroStructLine

\* C10: a line that is no message line is emitted, without error, as a typed
\* line with the exchange, type, timestamp, channel and payload of the raw
\* line and no definition, whatever the schema table holds.
NonMessageVerbatim ==
    \A log \in Logs : \A q \in DOMAIN log :
        LET line == raw.lines[log[q].idx]
        IN  line.Type # LineTypeMessage
            => /\ log[q].ok /\ log[q].err = "nil" /\ ~log[q].panics
               /\ log[q].ret =
                    [Exchange |-> line.Exchange, Type |-> line.Type,
                     Timestamp |-> line.Timestamp, Channel |-> line.Channel,
                     Message |-> RawBytes(line.Message), Definition |-> NilMap]

\* a start line and a send line were emitted while the table held definitions
NonMessageSeen ==
    \E log \in Logs : \E q1, q2 \in DOMAIN log :
        /\ 1 < q1 /\ q1 < q2
        /\ log[q1 - 1].defs # <<>>
        /\ raw.lines[log[q1].idx].Type = LineTypeSend
        /\ raw.lines[log[q1].idx].Channel # NilChannel
        /\ raw.lines[log[q2].idx].Type = LineTypeStart
        /\ log[q1].ok /\ log[q2].ok

\* the three shapes a return of Next can have
LineShape(r) == r.line # Nil /\ r.ok /\ r.err = "nil"
ErrorShape(r) == r.line = Nil /\ ~r.ok /\ r.err # "nil"

\* C13: every return of Next is a line with ok and no error, or no line, not
\* ok and an error, or no line, not ok and no error; so ok is false whenever
\* an error is returned and the line is non-nil exactly when ok is true.
NextShapes ==
    \A i \in IterIds : \A q \in DOMAIN itr[i].rets :
        LET r == itr[i].rets[q]
        IN  /\ LineShape(r) \/ ErrorShape(r) \/ GracefulEnd(r)
            /\ r.err # "nil" => ~r.ok
            /\ r.line # Nil <=> r.ok

\* one iterator returned a line, then a DecodeError, then the graceful end
AllShapesSeen ==
    \E i \in IterIds : \E q1, q2, q3 \in DOMAIN itr[i].rets :
        /\ q1 < q2 /\ q2 < q3
        /\ LineShape(itr[i].rets[q1])
        /\ ErrorShape(itr[i].rets[q2]) /\ itr[i].rets[q2].err # "transport"
        /\ GracefulEnd(itr[i].rets[q3])

\* the schema-definition lines of the pair of line k that no start line of
\* its exchange separates from it: the first message line of the pair since
\* the latest start line, or since the session began
DefLinesOf(lines, k) ==
    {j \in 1..(k - 1) :
       /\ IsMessageOf(lines[j], lines[k].Exchange, lines[k].Channel)
       /\ SchemaDefLine(lines, j)
       /\ \A m \in (j + 1)..(k - 1) : ~IsStartOf(lines[m], lines[k].Exchange)}

\* C15: every emitted message line carries as its definition the mapping
\* decoded from the first message line of its (exchange, channel) since the
\* latest start line of the exchange, and a message line of a pair with a
\* stored definition leaves that definition as it was.
DefinitionFromFirstMessage ==
    \A log \in Logs : \A q \in DOMAIN log :
        LET line == raw.lines[log[q].idx]
        IN  /\ (line.Type = LineTypeMessage /\ log[q].ok)
               => /\ DefLinesOf(raw.lines, log[q].idx) # {}
                  /\ \A j \in DefLinesOf(raw.lines, log[q].idx) :
                       LET u == UnmarshalDef(raw.lines[j].Message)
                       IN  ~u.err /\ log[q].ret.Definition = u.def
            /\ StoredBefore(log, q)
               => /\ line.Exchange \in DOMAIN log[q].defs
                  /\ line.Channel \in DOMAIN log[q].defs[line.Exchange]
                  /\ log[q].defs[line.Exchange][line.Channel]
                       = log[q - 1].defs[line.Exchange][line.Channel]

\* the schema table a processor holds when call q of its log begins
TableBefore(log, q) == IF q = 1 THEN newRawLineProcessor ELSE log[q - 1].defs

\* the definition a table holds for (e, c), Nil when it holds none
DefAt(defs, e, c) ==
    IF e \in DOMAIN defs /\ c \in DOMAIN defs[e] THEN defs[e][c] ELSE Nil

\* C16: a start line of E leaves the definitions of every other exchange as
\* they were, a message line of (E, c) those of every other pair, and any
\* other line the whole table; a message line of (E, c2) is consumed as a
\* schema definition when E holds a definition for another channel only.
SchemaKeyedIndependently ==
    \A log \in Logs : \A q \in DOMAIN log :
        LET line == raw.lines[log[q].idx]
            before == TableBefore(log, q)
            after == log[q].defs
        IN  /\ line.Type = LineTypeStart
               => \A e \in Exchanges \ {line.Exchange} : \A c \in Channels :
                    DefAt(after, e, c) = DefAt(before, e, c)
            /\ line.Type = LineTypeMessage
               => \A e \in Exchanges : \A c \in Channels :
                    <<e, c>> # <<line.Exchange, line.Channel>>
                    => DefAt(after, e, c) = DefAt(before, e, c)
            /\ line.Type \notin {LineTypeStart, LineTypeMessage} => after = before
            /\ (/\ line.Type = LineTypeMessage
                /\ DefAt(before, line.Exchange, line.Channel) = Nil
                /\ \E c \in Channels : DefAt(before, line.Exchange, c) # Nil)
               => ConsumedAsDef(log[q], line)

\* with a definition stored for (e1, c1), a start line of e2 came and then
\* a message line of (e1, c2) was stored as a definition next to it
OtherChannelStored ==
    \E log \in Logs : \E q \in DOMAIN log :
        LET line == raw.lines[log[q].idx]
        IN  /\ q > 2
            /\ IsMessageOf(line, "e1", "c2")
            /\ IsStartOf(raw.lines[log[q - 1].idx], "e2")
            /\ DefAt(log[q - 2].defs, "e1", "c1") # Nil
            /\ DefAt(log[q - 1].defs, "e1", "c1") # Nil
            /\ DefAt(log[q - 1].defs, "e1", "c2") = Nil
            /\ DefAt(log[q].defs, "e1", "c1") = DefAt(log[q - 1].defs, "e1", "c1")
            /\ DefAt(log[q].defs, "e1", "c2") # Nil

\* call r is the first call after call q of the log that is given a message
\* line of (e, c)
NextMessageOf(log, q, r, e, c) ==
    /\ q < r
    /\ IsMessageOf(raw.lines[log[r].idx], e, c)
    /\ \A m \in (q + 1)..(r - 1) : ~IsMessageOf(raw.lines[log[m].idx], e, c)

\* C17: a processRawLine call that returns a DecodeError leaves every stored
\* definition as it was: after a failed definition line the pair has no
\* definition and its next message line is consumed as a schema definition,
\* after a failed message line the pair keeps its definition.
FailedCallKeepsDefinitions ==
    \A log \in Logs : \A q \in DOMAIN log :
        LET line == raw.lines[log[q].idx]
            before == TableBefore(log, q)
        IN  log[q].err # "nil"
            => /\ \A e \in Exchanges : \A c \in Channels :
                    DefAt(log[q].defs, e, c) = DefAt(before, e, c)
               /\ DefAt(before, line.Exchange, line.Channel) = Nil
                  => /\ log[q].err = "def update unmarshal"
                     /\ \A r \in DOMAIN log :
                          NextMessageOf(log, q, r, line.Exchange, line.Channel)
                          => ConsumedAsDef(log[r], raw.lines[log[r].idx])
               /\ DefAt(before, line.Exchange, line.Channel) # Nil
                  => log[q].err \in {"message unmarshal", "type conversion"}

\* a definition line failed, the next message line of the pair was stored
\* as its definition, and a message line then failed and left it stored
BothFailuresSeen ==
    \E log \in Logs : \E q1, q2, q3 \in DOMAIN log :
        LET line == raw.lines[log[q1].idx]
        IN  /\ log[q1].err = "def update unmarshal"
            /\ NextMessageOf(log, q1, q2, line.Exchange, line.Channel)
            /\ log[q2].err = "nil"
            /\ DefAt(log[q2].defs, line.Exchange, line.Channel) # Nil
            /\ NextMessageOf(log, q2, q3, line.Exchange, line.Channel)
            /\ log[q3].err = "type conversion"
            /\ DefAt(log[q3].defs, line.Exchange, line.Channel)
                 = DefAt(log[q2].defs, line.Exchange, line.Channel)

\* the raw line, which carries its position as timestamp, is no
\* schema-definition line of the raw sequence
NotSchemaDef(l) == ~SchemaDefLine(raw.lines, l.Timestamp)

\* the raw lines that are no schema-definition lines, in arrival order
NonDefLines == SelectSeq(raw.lines, NotSchemaDef)

\* C18: a download that meets no error returns one typed line for every raw
\* line that is no schema-definition line, in arrival order and with that
\* line's exchange, type, timestamp and channel; its length is the number of
\* raw lines less the schema-definition lines, and every raw line was given
\* to the processor once, in arrival order.
DownloadOrderAndCount ==
    (dl.called /\ dl.returned /\ dl.err = "nil")
    => /\ ~dl.result.isNil
       /\ Len(dl.result.elems) = Len(NonDefLines)
       /\ \A k \in DOMAIN dl.result.elems :
            /\ dl.result.elems[k].Exchange = NonDefLines[k].Exchange
            /\ dl.result.elems[k].Type = NonDefLines[k].Type
            /\ dl.result.elems[k].Timestamp = NonDefLines[k].Timestamp
            /\ dl.result.elems[k].Channel = NonDefLines[k].Channel
       /\ Len(dl.result.elems)
            = Len(raw.lines)
              - Cardinality({j \in DOMAIN raw.lines : SchemaDefLine(raw.lines, j)})
       /\ Len(dl.log) = Len(raw.lines)
       /\ \A q \in DOMAIN dl.log : dl.log[q].idx = q

\* a download of three lines dropped the definition line in the middle and
\* returned the first and the third, a message line, in that order
MiddleLineDropped ==
    /\ dl.called /\ dl.returned /\ dl.err = "nil"
    /\ Len(raw.lines) = 3
    /\ SchemaDefLine(raw.lines, 2)
    /\ Len(dl.result.elems) = 2
    /\ dl.result.elems[1].Timestamp = 1
    /\ dl.result.elems[2].Timestamp = 3
    /\ dl.result.elems[2].Type = LineTypeMessage

\* the position of rawItr when Next call q of iterator i returned
PosAfter(i, q) == itr[i].rets[q].to

\* Next call q of iterator i returned its error at once: no line with it,
\* and rawItr left where the error was met, which for a DecodeError is the
\* line the processor refused and for a transport error the end of what the
\* transport delivered, with the processor called on delivered lines only
ReturnedAtOnce(i, q) ==
    LET r == itr[i].rets[q]
    IN  /\ r.line = Nil /\ ~r.ok
        /\ IF r.err = "transport"
           THEN /\ PosAfter(i, q) = Len(raw.lines)
                /\ \A p \in DOMAIN itr[i].log : itr[i].log[p].idx <= Len(raw.lines)
                /\ \A p \in DOMAIN itr[i].log :
                     itr[i].log[p].idx > r.at => itr[i].log[p].err = "nil"
           ELSE \E p \in DOMAIN itr[i].log :
                  /\ itr[i].log[p].idx = PosAfter(i, q)
                  /\ itr[i].log[p].idx > r.at
                  /\ itr[i].log[p].err = r.err

\* C19: a Next call that meets a DecodeError or a transport error returns it
\* at once with no line, pulling no further raw line, and no later Next call
\* of the iterator yields a typed line.
ErrorTerminatesIterator ==
    \A i \in IterIds : \A q \in DOMAIN itr[i].rets :
        itr[i].rets[q].err # "nil"
        => /\ ReturnedAtOnce(i, q)
           /\ \A q2 \in DOMAIN itr[i].rets : q2 > q => ~itr[i].rets[q2].ok

\* C20: a step that is no Close call of an iterator, a Next call among them,
\* leaves its raw session unreleased or as released as before; a Close call
\* closes rawItr once, returns the error rawItr.Close() gave, and leaves the
\* processor's table, its log, rawItr's position and the Next returns alone.
ReleasedOnlyByClose ==
    [][\A i \in IterIds :
         /\ itr'[i].closes = itr[i].closes
            => /\ itr'[i].rawCloses = itr[i].rawCloses
               /\ itr'[i].closeErr = itr[i].closeErr
         /\ itr'[i].closes # itr[i].closes
            => /\ itr'[i].closes = itr[i].closes + 1
               /\ itr'[i].rawCloses = itr[i].rawCloses + 1
               /\ itr'[i].closeErr = itr'[i].rawCloseErr
               /\ itr'[i].defs = itr[i].defs
               /\ itr'[i].log = itr[i].log
               /\ itr'[i].pos = itr[i].pos
               /\ itr'[i].rets = itr[i].rets
       ]_vars

\* an iterator that yielded a line and then reported an error was closed
\* with raw lines left unpulled; the raw session was closed once, by the
\* Close call, which returned the error of rawItr.Close()
ClosedAfterError ==
    \E i \in IterIds : \E q1, q2 \in DOMAIN itr[i].rets :
        /\ q1 < q2
        /\ itr[i].rets[q1].ok
        /\ itr[i].rets[q2].err # "nil"
        /\ itr[i].pos < Len(raw.lines)
        /\ itr[i].closes = 1
        /\ itr[i].rawCloses = 1
        /\ itr[i].rawCloseErr = "close"
        /\ itr[i].closeErr = "close"

\* what a caller sees of a Next return
Seen(r) == [line |-> r.line, ok |-> r.ok, err |-> r.err]

\* the sequences of n Next returns an iterator can give when it runs alone
\* on the raw lines r, from position pos with the table defs
RECURSIVE AloneReturns(_, _, _, _)
AloneReturns(r, pos, defs, n) ==
    IF n = 0 THEN {<<>>}
    ELSE UNION {IF run.panics THEN {}
                ELSE {<<Seen(run)>> \o rest :
                        rest \in AloneReturns(r, run.pos, run.defs, n - 1)}
                : run \in NextLoop(r, pos, defs, <<>>)}

\* C11: whatever the interleaving of two iterators and the downloads of a
\* request, the returns of each iterator are returns it can give when it
\* runs alone from a fresh processor, and so is the return of the download.
ExecutionsIsolated ==
    /\ \A i \in DOMAIN itr :
         [q \in DOMAIN itr[i].rets |-> Seen(itr[i].rets[q])]
           \in AloneReturns(raw, 0, newRawLineProcessor, Len(itr[i].rets))
    /\ (dl.called /\ dl.returned)
       => \E run \in DownloadLoop(raw.lines, 1, newRawLineProcessor, <<>>, <<>>) :
            ~run.panics /\ run.result = dl.result /\ run.err = dl.err

\* one iterator is past the definition line and a line it emitted when the
\* other, opened on the same lines, makes its first call and is given no
\* line for the definition line but the same first line; a download ran too
InterleavedSeen ==
    /\ dl.called /\ dl.returned
    /\ Len(itr[1].rets) >= 2
    /\ Len(itr[2].rets) = 1
    /\ itr[1].rets[1].ok /\ itr[1].rets[2].ok
    /\ itr[1].rets[1].line.Type = LineTypeMessage
    /\ itr[2].rets[1].at = 0
    /\ itr[2].rets[1].line = itr[1].rets[1].line
    /\ itr[1].pos > itr[2].pos

\* every field of the payload that the definition tags is null or of the
\* declared type: a decimal 64-bit integer string for timestamp and
\* duration, a number for int
FieldsMatch(def, message) ==
    /\ message.json # "malformed"
    /\ \A f \in DOMAIN def \cap DOMAIN ObjectOf(message) :
         LET v == ObjectOf(message)[f]
         IN  \/ v = JNull
             \/ /\ IsNumericTag(def[f]) => IsDecimalInt64(v)
                /\ def[f] = TagInt => v.j = "number"

\* C14: a message line whose fields match the stored definition has one
\* outcome whatever the order in which the definition's fields are visited,
\* and any two processors given the same lines emit it alike: same emitted
\* flag, same typed line.
SchemaApplicationDeterministic ==
    \A l1 \in Logs : \A p \in DOMAIN l1 :
        (StoredBefore(l1, p)
         /\ FieldsMatch(DefBefore(l1, p), raw.lines[l1[p].idx].Message))
        => /\ Cardinality(processRawLine(TableBefore(l1, p), raw.lines[l1[p].idx])) = 1
           /\ l1[p].ok /\ ~l1[p].panics
           /\ \A l2 \in Logs : \A q \in DOMAIN l2 :
                l2[q].idx = l1[p].idx
                => /\ l2[q].ok = l1[p].ok
                   /\ l2[q].ret = l1[p].ret
                   /\ l2[q].err = l1[p].err

\* both iterators and a download were fed the two-field definition line and
\* the same two matching message lines, and gave {ts:12, n:42} twice
SameLinesCoercedAlike ==
    /\ raw.lines = Stamp(<<Message("e1", "c1", PairDef), Message("e1", "c1", PairMsg),
                           Message("e1", "c1", PairMsg)>>)
    /\ dl.called /\ dl.returned /\ Len(dl.result.elems) = 2
    /\ \A i \in DOMAIN itr :
         /\ Len(itr[i].log) = 3
         /\ Yielded(i) = dl.result.elems
    /\ \A k \in 1..2 :
         dl.result.elems[k].Message = MakeMap([ts |-> GoInt64(12), n |-> GoInt64(42)])

\* a Next return made after the cancellation is the transport error, or
\* took at least one of the lines buffered before it; the returns that are
\* not the transport error are no more than the lines buffered
CancelSafety ==
    \A i \in IterIds :
        LET late == {q \in DOMAIN itr[i].rets : itr[i].rets[q].ctx = "cancelled"}
        IN  /\ \A q \in late :
                 LET r == itr[i].rets[q]
                 IN  /\ ~GracefulEnd(r)
                     /\ \/ ErrorShape(r) /\ r.err = "transport"
                        \/ r.at < r.to /\ r.to <= itr[i].avail
            /\ Cardinality({q \in late : itr[i].rets[q].err # "transport"})
                 <= itr[i].avail

\* C12: once the context of an iterator is cancelled while lines are still
\* to be fetched, Next gives at most the lines already buffered and then
\* reports the transport error, and a Next call under way returns: it does
\* not wait for ever.
CancelledNextReports ==
    /\ []CancelSafety
    /\ \A i \in IterIds :
         (itr[i].ctx = "cancelled" /\ itr[i].pending)
           ~> (~itr[i].pending \/ crashed)

\* after the cancellation a Next call returned a buffered line and a later
\* one the transport error, with lines of a sound transport left unfetched
CancelledMidStream ==
    \E i \in IterIds : \E q1, q2 \in DOMAIN itr[i].rets :
        /\ q1 < q2
        /\ ~raw.fail
        /\ itr[i].avail < Len(raw.lines)
        /\ itr[i].rets[q1].ctx = "cancelled" /\ itr[i].rets[q1].ok
        /\ itr[i].rets[q2].err = "transport"

====
